---- MODULE Spec2Model ----
(***************************************************************************)
(* FluentBox (src/src/index.ts): a locale catalogue with fallback chains,  *)
(* asynchronous all-or-nothing loading of Fluent bundles and cascading     *)
(* message lookup.                                                         *)
(*                                                                         *)
(* One engine is constructed from an options record; further handles are   *)
(* obtained with clone().  Every load() call is a record of `calls`: its   *)
(* batch of per-locale fetches, how each fetch promise has settled, and    *)
(* how the then/catch callbacks of the call have run.                      *)
(***************************************************************************)
EXTENDS Naturals, Sequences, FiniteSets, TLC

\* ---------------------------------------------------------------- bounds
MaxCalls == 2      \* load() invocations in one behaviour
MaxHandles == 2    \* the constructed engine plus its clones
MaxInits == 1      \* registered bundle initializers
MaxStack == 8      \* call-stack frames available to the recursive lookups
MaxOrderedInits == 2   \* registered bundle initializers under SpecOrdered

\* ------------------------------------------------------------ data model
Null == "null"                 \* JavaScript null
Undefined == [undefined |-> TRUE]   \* JavaScript undefined (no message)
True == "true"
False == "false"
RangeError == "RangeError"     \* stack exhaustion thrown out of a lookup
EmptyString == ""

\* Canonical locale identifiers (Intl.Locale.prototype.toString()).
LA == "pt-BR"
LB == "pt"
LC == "es"
LD == "en-US"
Locale == {LA, LB, LC, LD}

\* Locale strings as a caller may spell them: the canonical identifiers and
\* other spellings of the same locales.
Spelling == Locale \cup {"pt-br", "PT", "en-us"}

\* new Intl.Locale(s).toString(): the canonical identifier of a spelling.
Canonicalize(s) ==
    CASE s = "pt-br" -> "pt-BR"
      [] s = "PT" -> "pt"
      [] s = "en-us" -> "en-US"
      [] OTHER -> s

\* String.prototype.toLowerCase on the identifiers in use.
ToLowerCase(s) ==
    CASE s = "pt-BR" -> "pt-br"
      [] s = "en-US" -> "en-us"
      [] OTHER -> s

\* Message identifiers used by lookups.
MsgId == {"onlyA", "onlyC", "onlyD", "inCD", "noValue", "missing"}

\* The .ftl resources found by the loaders for each locale: the ids each
\* locale's files define.  "noValue" is a message with attributes only, so
\* its value is null.
Defines(l) ==
    CASE l = LA -> {"onlyA"}
      [] l = LB -> {"noValue"}
      [] l = LC -> {"onlyC", "inCD"}
      [] l = LD -> {"onlyD", "inCD"}
      [] OTHER -> {}

\* FluentBundle.getMessage(id): the message or undefined.  A bundle is the
\* object created by one fetch: its locale and the fetch that built it.
BundleGetMessage(bundle, id) ==
    IF id \in Defines(bundle.locale)
    THEN [value |-> IF id = "noValue" THEN Null ELSE bundle.locale \o ":" \o id]
    ELSE Undefined

\* FluentBundle.formatPattern on a text-only pattern.
FormatPattern(bundle, value) == value

\* ----------------------------------------------------------------- state
VARIABLES
    locales,            \* _locales: the supported set
    defaultLocale,      \* _defaultLocale
    fallbacks,          \* _fallbacks: locale -> ordered list of fallbacks
    clean,              \* _clean
    currentLocale,      \* _currentLocale of each handle (1 = the original)
    assets,             \* _assets, shared by every handle
    bundleInitializers, \* _bundleInitializers, shared by every handle
    calls               \* the load() invocations made so far

vars == <<locales, defaultLocale, fallbacks, clean, currentLocale, assets,
          bundleInitializers, calls>>

options == <<locales, defaultLocale, fallbacks, clean>>

Handles == DOMAIN currentLocale

\* -------------------------------------------------------- configurations
\* A -> [B], B -> [C]
ChainGraph == (LA :> <<LB>>) @@ (LB :> <<LC>>)
\* A -> [B, C], C -> [B]: B is reached along two paths
SharedGraph == (LA :> <<LB, LC>>) @@ (LC :> <<LB>>)
\* the default locale D has a fallback of its own: D -> [B]
DefaultGraph == (LD :> <<LB>>) @@ (LA :> <<>>)

\* A -> [B, C], B -> [D]: a fallback with a fallback of its own before a
\* sibling
TreeGraph == (LA :> <<LB, LC>>) @@ (LB :> <<LD>>)

\* The options the engine is constructed from, as the caller spells them.
\* In the last one neither the default locale nor the fallback C is a
\* supported locale.
FluentBoxOptions ==
    { [locales |-> {"pt-br", "pt", "es", "en-us"}, fallbacks |-> ChainGraph,
       defaultLocale |-> "en-us"],
      [locales |-> Locale, fallbacks |-> SharedGraph, defaultLocale |-> LD],
      [locales |-> {LA, LB, LD}, fallbacks |-> DefaultGraph, defaultLocale |-> LD],
      [locales |-> {LA, "PT"}, fallbacks |-> ChainGraph, defaultLocale |-> LD] }

\* constructor: the fallbacks option with its keys and its lists parsed and
\* converted back to strings.
ParseFallbacks(f) ==
    [k \in {Canonicalize(u) : u \in DOMAIN f} |->
        LET u == CHOOSE v \in DOMAIN f : Canonicalize(v) = k
        IN [i \in DOMAIN f[u] |-> Canonicalize(f[u][i])]]

\* constructor, for the options o
Construct(o) ==
    /\ locales = {Canonicalize(u) : u \in o.locales}
    /\ fallbacks = ParseFallbacks(o.fallbacks)
    /\ defaultLocale = Canonicalize(o.defaultLocale)

\* constructor
Init ==
    /\ \E o \in FluentBoxOptions : Construct(o)
    /\ clean \in BOOLEAN
    /\ currentLocale = <<Null>>
    /\ assets = [l \in {} |-> Null]
    /\ bundleInitializers = <<>>
    /\ calls = <<>>

\* ------------------------------------------------------------- operations
\* supportsLocale that accepts every locale.
SupportsLocaleAny(argument) == TRUE

\* supportsLocale: argument.toString() is looked up in _locales.  An
\* Intl.Locale argument stands here as its toString(), the canonical
\* identifier; a string argument is its own toString().
SupportsLocale(argument) == argument \in locales

RECURSIVE EnumerateFallbacks(_)
RECURSIVE EnumerateList(_, _)

\* The loop of _enumerateFallbacks visiting the siblings before the
\* fallbacks of each.
RECURSIVE EnumerateListSiblingsFirst(_, _)
EnumerateListSiblingsFirst(list, i) ==
    IF i > Len(list) THEN <<>>
    ELSE <<list[i]>> \o EnumerateListSiblingsFirst(list, i + 1)
                    \o EnumerateFallbacks(list[i])

\* _enumerateFallbacks: depth-first, left-to-right pre-order.
EnumerateList(list, i) ==
    IF i > Len(list) THEN <<>>
    ELSE <<list[i]>> \o EnumerateFallbacks(list[i]) \o EnumerateList(list, i + 1)
EnumerateFallbacks(locale) ==
    IF locale \notin DOMAIN fallbacks THEN <<>>
    ELSE EnumerateList(fallbacks[locale], 1)

\* _enumerateFallbacksToSet that adds the direct fallbacks only.
EnumerateFallbacksToSetDirect(locale, output) ==
    output \o (IF locale \in DOMAIN fallbacks THEN fallbacks[locale] ELSE <<>>)

\* _enumerateFallbacksToSet: the same traversal adding `new Intl.Locale(item)`
\* to a Set<Intl.Locale>.  A JavaScript Set of objects compares by identity
\* and every added object is new, so the Set keeps one element per visit, in
\* insertion order; `output` starts as [newLocale].
EnumerateFallbacksToSet(locale, output) == output \o EnumerateFallbacks(locale)

\* load: the synchronous part, up to and including the start of every fetch.
\* The record of the call keeps the handle it was made through and the
\* handles that existed then, the argument and the locale it stands for,
\* the batch, the state of each fetch promise, how far the then callback got,
\* the initializer invocations it made and what the returned promise
\* resolved to ("threw": the call threw before returning a promise).
Load(h, arg) ==
    /\ Len(calls) < MaxCalls
    /\ LET newLocale == IF arg = Null THEN defaultLocale ELSE arg
       IN IF ~SupportsLocale(newLocale)
          THEN calls' = Append(calls,
                  [handle |-> h, handles |-> Handles, arg |-> arg,
                   newLocale |-> newLocale,
                   toLoad |-> <<>>, fetch |-> <<>>, then |-> "none",
                   inits |-> <<>>, result |-> "threw"])
          ELSE LET toLoad == EnumerateFallbacksToSet(newLocale, <<newLocale>>)
               IN calls' = Append(calls,
                     [handle |-> h, handles |-> Handles, arg |-> arg,
                      newLocale |-> newLocale,
                      toLoad |-> toLoad,
                      fetch |-> [i \in DOMAIN toLoad |-> "pending"],
                      then |-> "none", inits |-> <<>>, result |-> "pending"])
    /\ UNCHANGED <<options, currentLocale, assets, bundleInitializers>>

\* _loadSingleLocale: the promise of fetch i of call c is fulfilled with
\* [localeAsStr, bundle].
FetchFulfilled(c, i) ==
    /\ calls[c].fetch[i] = "pending"
    /\ calls' = [calls EXCEPT ![c].fetch[i] = "fulfilled"]
    /\ UNCHANGED <<options, currentLocale, assets, bundleInitializers>>

\* _loadSingleLocale: the promise of fetch i of call c is rejected.
FetchRejected(c, i) ==
    /\ calls[c].fetch[i] = "pending"
    /\ calls' = [calls EXCEPT ![c].fetch[i] = "rejected"]
    /\ UNCHANGED <<options, currentLocale, assets, bundleInitializers>>

\* Promise.allSettled in the place of Promise.all: fulfilled once no fetch
\* is pending, whatever the outcomes.
PromiseAllSettled(fetch) ==
    IF \A i \in DOMAIN fetch : fetch[i] # "pending" THEN "fulfilled" ELSE "pending"

\* Promise.all over the fetch promises: fulfilled once every one is, rejected
\* as soon as one is.
PromiseAll(fetch) ==
    IF \E i \in DOMAIN fetch : fetch[i] = "rejected" THEN "rejected"
    ELSE IF \A i \in DOMAIN fetch : fetch[i] = "fulfilled" THEN "fulfilled"
    ELSE "pending"

\* The bundle built by fetch i of call c (new FluentBundle(localeAsStr)).
Bundle(c, i) == [locale |-> calls[c].toLoad[i], call |-> c, idx |-> i]

\* The loop over res started at the second pair.
RECURSIVE SetAssetsFromSecond(_, _, _)
SetAssetsFromSecond(table, c, i) ==
    IF i > Len(calls[c].toLoad) THEN table
    ELSE LET key == calls[c].toLoad[i]
         IN SetAssetsFromSecond(
               IF i = 1 THEN table
               ELSE [l \in DOMAIN table \cup {key} |->
                        IF l = key THEN Bundle(c, i) ELSE table[l]], c, i + 1)

\* for (let pair of res) self._assets.set(pair[0], pair[1])
RECURSIVE SetAssets(_, _, _)
SetAssets(table, c, i) ==
    IF i > Len(calls[c].toLoad) THEN table
    ELSE LET key == calls[c].toLoad[i]
         IN SetAssets([l \in DOMAIN table \cup {key} |->
                          IF l = key THEN Bundle(c, i) ELSE table[l]], c, i + 1)

\* The commit without the clear, whatever the policy.
CommitAssetsNeverClear(c) == SetAssets(assets, c, 1)

\* The commit with the clear, whatever the policy.
CommitAssetsAlwaysClear(c) == SetAssets([l \in {} |-> Null], c, 1)

\* if (self._clean) self._assets.clear(); then the loop over res
CommitAssets(c) ==
    SetAssets(IF clean THEN [l \in {} |-> Null] ELSE assets, c, 1)

\* The initializers the loop of the then callback invokes: all of them, or
\* those up to and including the first one that throws.
Invoked(inits) ==
    IF \E i \in DOMAIN inits : inits[i] = "throws"
    THEN 1 .. (CHOOSE i \in DOMAIN inits :
                  /\ inits[i] = "throws"
                  /\ \A j \in 1 .. (i - 1) : inits[j] # "throws")
    ELSE DOMAIN inits

\* The invocations made by the initializer loop when it runs before the
\* table and the current locale are written.
BundleInitCallsBeforeCommit(c, table, current) ==
    [i \in Invoked(bundleInitializers) |->
        [fn |-> i, locale |-> calls[c].newLocale,
         bundle |-> IF calls[c].newLocale \in DOMAIN assets
                    THEN assets[calls[c].newLocale] ELSE Undefined,
         current |-> currentLocale[calls[c].handle]]]

\* for (let bundleInit of self._bundleInitializers)
\*     bundleInit(newLocale, self._assets.get(newLocale.toString())!)
\* The invocations in the order they are made: which initializer, its two
\* arguments, and the current locale of the loading handle at that moment;
\* table and current are _assets and _currentLocale when the loop runs.
BundleInitCalls(c, table, current) ==
    [i \in Invoked(bundleInitializers) |->
        [fn |-> i, locale |-> calls[c].newLocale,
         bundle |-> IF calls[c].newLocale \in DOMAIN table
                    THEN table[calls[c].newLocale] ELSE Undefined,
         current |-> current]]

\* load: the then callback of Promise.all, one microtask.
Commit(c) ==
    /\ calls[c].result = "pending"
    /\ calls[c].then = "none"
    /\ PromiseAll(calls[c].fetch) = "fulfilled"
    /\ LET newLocale == calls[c].newLocale
           threw == \E i \in DOMAIN bundleInitializers : bundleInitializers[i] = "throws"
       IN /\ assets' = CommitAssets(c)
          /\ currentLocale' = [currentLocale EXCEPT ![calls[c].handle] = newLocale]
          /\ calls' = [calls EXCEPT
                ![c].inits = BundleInitCalls(c, assets', newLocale),
                ![c].then = IF threw THEN "threw" ELSE "returned",
                ![c].result = IF threw THEN "pending" ELSE "true"]
    /\ UNCHANGED <<options, bundleInitializers>>

\* load: the catch callback, run after Promise.all rejected or the then
\* callback threw.
ResolveFalse(c) ==
    /\ calls[c].result = "pending"
    /\ \/ calls[c].then = "threw"
       \/ calls[c].then = "none" /\ PromiseAll(calls[c].fetch) = "rejected"
    /\ calls' = [calls EXCEPT ![c].result = "false"]
    /\ UNCHANGED <<options, currentLocale, assets, bundleInitializers>>

\* addBundleInitializer; fn either returns or throws when it is invoked.
AddBundleInitializer(h, fn) ==
    /\ Len(bundleInitializers) < MaxInits
    /\ bundleInitializers' = Append(bundleInitializers, fn)
    /\ UNCHANGED <<options, currentLocale, assets, calls>>

\* addBundleInitializer, up to the bound of SpecOrdered.
AddOrderedBundleInitializer(h, fn) ==
    /\ Len(bundleInitializers) < MaxOrderedInits
    /\ bundleInitializers' = Append(bundleInitializers, fn)
    /\ UNCHANGED <<options, currentLocale, assets, calls>>

\* clone: a new handle with a copy of _currentLocale and references to the
\* collections of the original.
Clone(h) ==
    /\ Len(currentLocale) < MaxHandles
    /\ currentLocale' = Append(currentLocale, currentLocale[h])
    /\ UNCHANGED <<options, assets, bundleInitializers, calls>>

\* -------------------------------------------------------------- accessors
\* get fallbacks, through handle h
Fallbacks(h) ==
    IF currentLocale[h] # Null THEN EnumerateFallbacks(currentLocale[h]) ELSE <<>>

\* get localeAndFallbacks, through handle h
LocaleAndFallbacks(h) ==
    IF currentLocale[h] # Null
    THEN <<currentLocale[h]>> \o EnumerateFallbacks(currentLocale[h])
    ELSE <<>>

\* ---------------------------------------------------------------- lookups
\* _getMessageByLocale, the bundle of `locale` itself: the formatted value,
\* the empty string for a message without a value, null when the table has
\* no bundle for the locale or the bundle does not define the id.
GetMessageInBundle(id, locale) ==
    LET msg == IF locale \in DOMAIN assets
               THEN BundleGetMessage(assets[locale], id) ELSE Undefined
    IN IF msg # Undefined
       THEN IF msg.value # Null
            THEN FormatPattern(assets[locale], msg.value)
            ELSE EmptyString
       ELSE Null

\* _getMessageByLocale; depth counts the frames of the recursion, and a
\* RangeError thrown by a deeper frame propagates to the caller.
RECURSIVE GetMessageByLocale(_, _, _)
RECURSIVE GetMessageInFallbacks(_, _, _, _)
GetMessageInFallbacks(id, list, i, depth) ==
    IF i > Len(list) THEN Null
    ELSE LET r == GetMessageByLocale(id, list[i], depth + 1)
         IN IF r # Null THEN r ELSE GetMessageInFallbacks(id, list, i + 1, depth)
GetMessageByLocale(id, locale, depth) ==
    IF depth > MaxStack THEN RangeError
    ELSE LET own == GetMessageInBundle(id, locale)
         IN IF own # Null THEN own
            ELSE LET r == IF locale \in DOMAIN fallbacks
                          THEN GetMessageInFallbacks(id, fallbacks[locale], 1, depth)
                          ELSE Null
                 IN IF r # Null THEN r
                    ELSE IF /\ defaultLocale # Null
                            /\ ToLowerCase(locale) # ToLowerCase(defaultLocale)
                         THEN GetMessageByLocale(id, defaultLocale, depth + 1)
                         ELSE Null

\* getMessage through handle h
GetMessage(h, id) ==
    IF currentLocale[h] = Null THEN Null
    ELSE GetMessageByLocale(id, currentLocale[h], 1)

\* The own-bundle test of _hasMessageByLocale asking for a value as well.
HasMessageWithValueInBundle(id, locale) ==
    LET msg == IF locale \in DOMAIN assets
               THEN BundleGetMessage(assets[locale], id) ELSE Undefined
    IN msg # Undefined /\ msg.value # Null

\* _hasMessageByLocale, the bundle of `locale` itself.
HasMessageInBundle(id, locale) ==
    LET msg == IF locale \in DOMAIN assets
               THEN BundleGetMessage(assets[locale], id) ELSE Undefined
    IN msg # Undefined

\* _hasMessageByLocale
RECURSIVE HasMessageByLocale(_, _, _)
RECURSIVE HasMessageInFallbacks(_, _, _, _)
HasMessageInFallbacks(id, list, i, depth) ==
    IF i > Len(list) THEN False
    ELSE LET r == HasMessageByLocale(id, list[i], depth + 1)
         IN IF r # False THEN r ELSE HasMessageInFallbacks(id, list, i + 1, depth)
HasMessageByLocale(id, locale, depth) ==
    IF depth > MaxStack THEN RangeError
    ELSE IF HasMessageInBundle(id, locale) THEN True
    ELSE LET r == IF locale \in DOMAIN fallbacks
                  THEN HasMessageInFallbacks(id, fallbacks[locale], 1, depth)
                  ELSE False
         IN IF r # False THEN r
            ELSE IF /\ defaultLocale # Null
                    /\ ToLowerCase(locale) # ToLowerCase(defaultLocale)
                 THEN HasMessageByLocale(id, defaultLocale, depth + 1)
                 ELSE False

\* hasMessage through handle h
HasMessage(h, id) ==
    IF currentLocale[h] = Null THEN False
    ELSE HasMessageByLocale(id, currentLocale[h], 1)

\* ------------------------------------------------------------------- next
Next ==
    \/ \E h \in Handles, arg \in Locale \cup {Null} : Load(h, arg)
    \/ \E c \in DOMAIN calls : \E i \in DOMAIN calls[c].fetch : FetchFulfilled(c, i)
    \/ \E c \in DOMAIN calls : \E i \in DOMAIN calls[c].fetch : FetchRejected(c, i)
    \/ \E c \in DOMAIN calls : Commit(c)
    \/ \E c \in DOMAIN calls : ResolveFalse(c)
    \/ \E h \in Handles, fn \in {"returns", "throws"} : AddBundleInitializer(h, fn)
    \/ \E h \in Handles : Clone(h)

Spec == Init /\ [][Next]_vars

\* The engine constructed on the tree graph, with up to MaxOrderedInits
\* initializers and no clone.
InitOrdered ==
    /\ Construct([locales |-> Locale, fallbacks |-> TreeGraph, defaultLocale |-> LD])
    /\ clean \in BOOLEAN
    /\ currentLocale = <<Null>>
    /\ assets = [l \in {} |-> Null]
    /\ bundleInitializers = <<>>
    /\ calls = <<>>

NextOrdered ==
    \/ \E h \in Handles, arg \in Locale \cup {Null} : Load(h, arg)
    \/ \E c \in DOMAIN calls : \E i \in DOMAIN calls[c].fetch : FetchFulfilled(c, i)
    \/ \E c \in DOMAIN calls : \E i \in DOMAIN calls[c].fetch : FetchRejected(c, i)
    \/ \E c \in DOMAIN calls : Commit(c)
    \/ \E c \in DOMAIN calls : ResolveFalse(c)
    \/ \E h \in Handles, fn \in {"returns", "throws"} : AddOrderedBundleInitializer(h, fn)

SpecOrdered == InitOrdered /\ [][NextOrdered]_vars

\* ----------------------------------------------------- shared vocabulary
\* The then callback of call c runs in this step.
ThenRuns(c) == calls[c].then = "none" /\ calls'[c].then # "none"

\* Call c resolves to true in this step.
ResolvesTrue(c) == calls[c].result # "true" /\ calls'[c].result = "true"

\* Call c resolves to false in this step.
ResolvesFalse(c) == calls[c].result # "false" /\ calls'[c].result = "false"

\* One of the fetches of the call record r has failed.
FetchFailed(r) == \E i \in DOMAIN r.fetch : r.fetch[i] = "rejected"

\* What the resources of locale l say for id: the text getMessage returns
\* when the message comes from l's bundle.
ResourceText(l, id) == IF id = "noValue" THEN "" ELSE l \o ":" \o id

\* closure(l) \cup {l}: the locales reachable from l in the fallback graph.
RECURSIVE Reach(_)
Reach(l) ==
    {l} \cup (IF l \in DOMAIN fallbacks
              THEN UNION {Reach(fallbacks[l][i]) : i \in DOMAIN fallbacks[l]}
              ELSE {})

\* ------------------------------------------------------------------ claims
\* C1: a load call one of whose fetches has failed never runs its then
\* callback and can only resolve to false; the step in which it resolves
\* leaves the Asset Table and every Current Locale unchanged; and no step
\* other than the then callback of a call without a failed fetch writes the
\* Asset Table or the Current Locale of a handle, under either policy.
C1_FailedLoadIsAtomic ==
    [][ /\ \A c \in DOMAIN calls :
              FetchFailed(calls'[c]) =>
                /\ calls'[c].then = "none"
                /\ calls'[c].result \in {"pending", "false"}
                /\ ResolvesFalse(c) =>
                     assets' = assets /\ currentLocale' = currentLocale
        /\ (\/ assets' # assets
            \/ \E h \in Handles : currentLocale'[h] # currentLocale[h])
              => \E c \in DOMAIN calls : ThenRuns(c) /\ ~FetchFailed(calls[c])
      ]_vars

\* C1 witness: a load with a failed fetch has resolved to false while an
\* earlier load's bundles and current locale are still in place.
C1_Witness ==
    \E c \in DOMAIN calls :
        /\ FetchFailed(calls[c])
        /\ calls[c].result = "false"
        /\ currentLocale[calls[c].handle] \notin {Null, calls[c].newLocale}
        /\ DOMAIN assets # {}

\* C2: the step in which a load(l) resolves to true leaves the current
\* locale of its handle equal to l, a bundle of l in the Asset Table, and
\* getMessage returning l's own text for every id l's bundle defines.
C2_SuccessfulLoadSetsRequested ==
    [][ \A c \in DOMAIN calls :
          ResolvesTrue(c) =>
            LET l == calls[c].newLocale
                h == calls[c].handle
            IN /\ currentLocale'[h] = l
               /\ l \in DOMAIN assets'
               /\ assets'[l].locale = l
               /\ \A id \in Defines(l) : GetMessage(h, id)' = ResourceText(l, id)
      ]_vars

\* C2 witness: a load of a locale that has fallbacks has resolved to true
\* and its handle's current locale is the requested locale.
C2_Witness ==
    \E c \in DOMAIN calls :
        /\ calls[c].result = "true"
        /\ Len(calls[c].toLoad) > 1
        /\ currentLocale[calls[c].handle] = calls[c].newLocale
        /\ GetMessage(calls[c].handle, "onlyA") = "pt-BR:onlyA"

\* C3: with A -> [B], B -> [C] and default D, once load(A) has resolved to
\* true an id defined only in D's resources is resolved to D's text and
\* hasMessage is true for it, and an id defined nowhere is not found.
C3_DefaultCascade ==
    [][ \A c \in DOMAIN calls :
          (/\ ResolvesTrue(c)
           /\ fallbacks = ChainGraph
           /\ defaultLocale = LD
           /\ LD \in locales
           /\ calls[c].newLocale = LA) =>
            LET h == calls[c].handle
            IN /\ GetMessage(h, "onlyD")' = ResourceText(LD, "onlyD")
               /\ HasMessage(h, "onlyD")' = True
               /\ GetMessage(h, "missing")' = Null
               /\ HasMessage(h, "missing")' = False
      ]_vars

\* C4: with A -> [B], B -> [C], the step in which load(A) resolves to true
\* leaves the bundles of A, B and C in the Asset Table, and an id defined
\* only in C's bundle is resolved through the handle to C's text.
C4_TransitiveFallback ==
    [][ \A c \in DOMAIN calls :
          (/\ ResolvesTrue(c)
           /\ fallbacks = ChainGraph
           /\ calls[c].newLocale = LA) =>
            LET h == calls[c].handle
            IN /\ {LA, LB, LC} \subseteq DOMAIN assets'
               /\ \A l \in {LA, LB, LC} : assets'[l].locale = l
               /\ GetMessage(h, "onlyC")' = ResourceText(LC, "onlyC")
               /\ HasMessage(h, "onlyC")' = True
      ]_vars

\* C4 witness: load(A) has resolved to true on the chain graph and the
\* handle finds C's message two fallbacks away.
C4_Witness ==
    \E c \in DOMAIN calls :
        /\ calls[c].result = "true"
        /\ fallbacks = ChainGraph
        /\ calls[c].newLocale = LA
        /\ currentLocale[calls[c].handle] = LA
        /\ GetMessage(calls[c].handle, "onlyC") = "es:onlyC"

\* C5: the step in which a load(l) resolves to true leaves equal to l the
\* current locale of every handle that existed when the load was called
\* (the loading handle, and the clones and the original it is aliased with).
C5_CloneSeesLoad ==
    [][ \A c \in DOMAIN calls :
          ResolvesTrue(c) =>
            \A g \in calls[c].handles : currentLocale'[g] = calls[c].newLocale
      ]_vars

\* C6: when the current locale of a handle is the default locale and no
\* loaded bundle defines the id, getMessage returns null and hasMessage
\* returns false (the lookup terminates).
C6_DefaultLocaleTerminates ==
    \A h \in Handles, id \in MsgId :
        (/\ currentLocale[h] # Null
         /\ ToLowerCase(currentLocale[h]) = ToLowerCase(defaultLocale)
         /\ \A l \in DOMAIN assets : id \notin Defines(l)) =>
            /\ GetMessage(h, id) = Null
            /\ HasMessage(h, id) = False

\* C7: under the clean policy the step in which a load(X) resolves to true
\* leaves the key set of the Asset Table equal to closure(X) \cup {X}.
C7_CleanReplacesTable ==
    [][ clean =>
          \A c \in DOMAIN calls :
              ResolvesTrue(c) => DOMAIN assets' = Reach(calls[c].newLocale)
      ]_vars

\* C7 witness: under the clean policy two loads have resolved to true and
\* the locale requested by one of them has no bundle in the table any more.
C7_Witness ==
    /\ clean
    /\ \E c, d \in DOMAIN calls :
        /\ calls[c].result = "true"
        /\ calls[d].result = "true"
        /\ calls[c].newLocale \notin DOMAIN assets
        /\ DOMAIN assets = Reach(calls[d].newLocale)

\* C8: under the accumulate policy no step removes a key from the Asset
\* Table, and the then callback of a load(X) leaves the table equal to the
\* previous table overridden by bundles built by that call for the locales
\* of closure(X) \cup {X}: every other key keeps the bundle it had.
C8_AccumulateKeepsTable ==
    [][ ~clean =>
          /\ DOMAIN assets \subseteq DOMAIN assets'
          /\ \A c \in DOMAIN calls :
                ThenRuns(c) =>
                  LET batch == Reach(calls[c].newLocale)
                  IN /\ DOMAIN assets' = DOMAIN assets \cup batch
                     /\ \A k \in DOMAIN assets' :
                           IF k \in batch
                           THEN assets'[k].locale = k /\ assets'[k].call = c
                           ELSE assets'[k] = assets[k]
      ]_vars

\* C8 witness: under the accumulate policy the second load has resolved to
\* true and the bundle built by the first load for a locale outside the
\* second batch is still in the table.
C8_Witness ==
    /\ ~clean
    /\ Len(calls) = 2
    /\ calls[2].result = "true"
    /\ \E k \in DOMAIN assets :
          /\ k \notin Reach(calls[2].newLocale)
          /\ assets[k].call = 1
    /\ \E k \in DOMAIN assets : assets[k].call = 2

\* C9: in every state, through every handle and for every id, hasMessage
\* and getMessage agree: hasMessage is true exactly when getMessage returns
\* a string, false exactly when getMessage returns null (and so one throws
\* exactly when the other does).
C9_HasAgreesWithGet ==
    \A h \in Handles, id \in MsgId :
        /\ HasMessage(h, id) = True <=> GetMessage(h, id) \notin {Null, RangeError}
        /\ HasMessage(h, id) = False <=> GetMessage(h, id) = Null

\* C9 witness: a message without a value is found as the empty string, an
\* undefined one is not found, and a handle without a locale finds nothing.
C9_Witness ==
    \E g, h \in Handles :
        /\ GetMessage(h, "noValue") = EmptyString
        /\ HasMessage(h, "noValue") = True
        /\ GetMessage(h, "missing") = Null
        /\ currentLocale[g] = Null
        /\ HasMessage(g, "noValue") = False

\* C10: a load whose locale (the argument, or the default locale when there
\* is no argument) is not a supported locale throws at once: no fetch is
\* started, the Asset Table and every Current Locale are unchanged, and the
\* call never proceeds; a load without argument has the batch of a load of
\* the default locale.
C10_UnsupportedThrowsFirst ==
    [][ /\ Len(calls') > Len(calls) =>
              LET r == calls'[Len(calls')]
              IN /\ r.newLocale = (IF r.arg = Null THEN defaultLocale ELSE r.arg)
                 /\ r.newLocale \notin locales =>
                       /\ r.result = "threw"
                       /\ r.fetch = <<>>
                       /\ assets' = assets
                       /\ currentLocale' = currentLocale
                 /\ r.newLocale \in locales =>
                       /\ r.result = "pending"
                       /\ r.toLoad[1] = r.newLocale
                       /\ \A i \in DOMAIN r.fetch : r.fetch[i] = "pending"
        /\ \A c \in DOMAIN calls : calls[c].result = "threw" => calls'[c] = calls[c]
        /\ \A c, d \in DOMAIN calls' :
              calls'[c].newLocale = calls'[d].newLocale =>
                 calls'[c].toLoad = calls'[d].toLoad
      ]_vars

\* C10 witness: after a load has committed, a load without argument has
\* thrown because the default locale is not supported.
C10_Witness ==
    \E c \in DOMAIN calls :
        /\ calls[c].arg = Null
        /\ calls[c].result = "threw"
        /\ DOMAIN assets # {}
        /\ currentLocale[calls[c].handle] # Null

\* C11: Bundle initializers.  In the step in which a load call resolves to
\* true, every registered initializer has been invoked exactly once, in
\* registration order, with the requested locale and the bundle of that
\* locale that this very call has just put in the table, at a moment when
\* the current locale is already the requested one; the invocations are
\* made in the step of the then callback and at no other time, so none
\* follows the resolution; a call with a failed fetch has invoked none.
C11_BundleInitializers ==
    [][ \A c \in DOMAIN calls :
          LET r == calls'[c]
          IN /\ ResolvesTrue(c) =>
                   /\ ThenRuns(c)
                   /\ Len(r.inits) = Len(bundleInitializers)
                   /\ \A i \in DOMAIN r.inits :
                         /\ r.inits[i].fn = i
                         /\ r.inits[i].locale = r.newLocale
                         /\ r.newLocale \in DOMAIN assets'
                         /\ r.inits[i].bundle = assets'[r.newLocale]
                         /\ r.inits[i].bundle = [locale |-> r.newLocale, call |-> c, idx |-> 1]
                         /\ r.inits[i].current = r.newLocale
                         /\ currentLocale'[r.handle] = r.newLocale
             /\ r.inits # calls[c].inits => ThenRuns(c) /\ calls[c].inits = <<>>
             /\ FetchFailed(r) => r.inits = <<>>
      ]_vars

\* C11 witness: a call for a locale with fallbacks has resolved to true on
\* an engine that already had a current locale, and two initializers were
\* invoked.
C11_Witness ==
    \E c, d \in DOMAIN calls :
        /\ d < c
        /\ calls[d].result = "true"
        /\ calls[d].newLocale # calls[c].newLocale
        /\ calls[c].result = "true"
        /\ Len(calls[c].toLoad) > 1
        /\ Len(calls[c].inits) = 2
        /\ assets[calls[c].newLocale].call = c

\* The depth-first, left-to-right pre-order of the fallback graph below the
\* locales of stack, by an explicit stack: the top is visited, then its
\* own fallbacks, then the rest.
RECURSIVE Preorder(_)
Preorder(stack) ==
    IF stack = <<>> THEN <<>>
    ELSE LET top == Head(stack)
             own == IF top \in DOMAIN fallbacks THEN fallbacks[top] ELSE <<>>
         IN <<top>> \o Preorder(own \o Tail(stack))

\* C12: Ordered fallback accessors.  Through every handle with a current
\* locale, fallbacks is the depth-first, left-to-right pre-order of the
\* fallback graph below the current locale and localeAndFallbacks is the
\* current locale followed by exactly that sequence; with no current
\* locale both are empty.
C12_OrderedFallbackAccessors ==
    \A h \in Handles :
        /\ currentLocale[h] = Null =>
              Fallbacks(h) = <<>> /\ LocaleAndFallbacks(h) = <<>>
        /\ currentLocale[h] # Null =>
              /\ Fallbacks(h) = Tail(Preorder(<<currentLocale[h]>>))
              /\ LocaleAndFallbacks(h) = <<currentLocale[h]>> \o Fallbacks(h)
              /\ LocaleAndFallbacks(h) = Preorder(<<currentLocale[h]>>)

\* C12 witness: the current locale is A, whose first fallback B has a
\* fallback D of its own that comes before A's second fallback C.
C12_Witness ==
    \E h \in Handles :
        /\ currentLocale[h] = LA
        /\ Fallbacks(h) = <<LB, LD, LC>>
        /\ LocaleAndFallbacks(h) = <<LA, LB, LD, LC>>

\* C13: supportsLocale.  For every spelling s of a locale, canonical or
\* not, supportsLocale(s) is true exactly when the canonical form of s is
\* the canonical form of one of the locales declared at construction.
C13_SupportsLocaleCanonical ==
    \A s \in Spelling : SupportsLocale(s) <=> Canonicalize(s) \in locales

\* C14: Deduplicated load batch.  Within one load call every locale of
\* closure(l) \cup {l} is fetched exactly once: the batch holds each of
\* them, and no locale at two positions.
C14_DeduplicatedBatch ==
    \A c \in DOMAIN calls :
        calls[c].result # "threw" =>
            /\ {calls[c].toLoad[i] : i \in DOMAIN calls[c].toLoad} = Reach(calls[c].newLocale)
            /\ DOMAIN calls[c].fetch = DOMAIN calls[c].toLoad
            /\ \A i, j \in DOMAIN calls[c].toLoad :
                  calls[c].toLoad[i] = calls[c].toLoad[j] => i = j

\* C15: Cascade priority.  Through every handle with a current locale, if
\* the id is defined in the loaded bundle of some locale of the sequence
\* [current locale] ++ chain(current locale), getMessage returns the text
\* of the first such locale of that sequence, whatever the bundle of the
\* default locale holds.
C15_CascadePriority ==
    \A h \in Handles : \A id \in MsgId :
        currentLocale[h] # Null =>
            LET seq == LocaleAndFallbacks(h)
                hits == {i \in DOMAIN seq :
                            seq[i] \in DOMAIN assets /\ id \in Defines(seq[i])}
            IN hits # {} =>
                  LET first == CHOOSE i \in hits : \A j \in hits : i <= j
                  IN GetMessage(h, id) = ResourceText(seq[first], id)

\* C16: Fan-in join.  No load call has resolved, to true or to false,
\* while a fetch of its batch is still in flight.
C16_FanInJoin ==
    \A c \in DOMAIN calls :
        calls[c].result \in {"true", "false"} =>
            \A i \in DOMAIN calls[c].fetch : calls[c].fetch[i] # "pending"

\* C17: Racing loads, last committer wins.  Every commit is one step that
\* writes the table and the current locale of the loading handle together,
\* and nothing else writes either, so the current locale seen through a
\* handle is the requested locale of the call that committed last through
\* it; under the clean policy the table after any step is exactly the
\* batch of the call that committed last, all its bundles built by that
\* call, and the current locale of that call's handle is that call's
\* requested locale.
C17_LastCommitterWins ==
    [][ /\ \A c \in DOMAIN calls :
              ThenRuns(c) =>
                 /\ currentLocale'[calls[c].handle] = calls[c].newLocale
                 /\ Reach(calls[c].newLocale) \subseteq DOMAIN assets'
                 /\ \A l \in Reach(calls[c].newLocale) : assets'[l].call = c
                 /\ \A d \in DOMAIN calls : d # c => calls'[d] = calls[d]
        /\ \A h \in Handles :
              currentLocale'[h] # currentLocale[h] =>
                 \E c \in DOMAIN calls : ThenRuns(c) /\ calls[c].handle = h
        /\ assets' # assets => \E c \in DOMAIN calls : ThenRuns(c)
        /\ (clean /\ DOMAIN assets' # {}) =>
              \E last \in DOMAIN calls' :
                 /\ calls'[last].then # "none"
                 /\ DOMAIN assets' = Reach(calls'[last].newLocale)
                 /\ \A l \in DOMAIN assets' : assets'[l].call = last
                 /\ currentLocale'[calls'[last].handle] = calls'[last].newLocale
      ]_vars

\* C17 witness: under the clean policy two calls for different locales
\* through one handle have both resolved to true; the second was started
\* while the first was in flight and committed first, and the table and
\* the current locale are those of the first.
C17_Witness ==
    /\ clean
    /\ Len(calls) = 2
    /\ calls[1].handle = calls[2].handle
    /\ calls[1].newLocale # calls[2].newLocale
    /\ calls[1].result = "true"
    /\ calls[2].result = "true"
    /\ Len(calls[1].toLoad) > 1
    /\ Len(calls[2].toLoad) > 1
    /\ currentLocale[calls[1].handle] = calls[1].newLocale
    /\ DOMAIN assets = Reach(calls[1].newLocale)
    /\ \A l \in DOMAIN assets : assets[l].call = 1

\* C18: A false result means no change.  Whatever made it resolve to
\* false, a load call that has resolved to false has not run the writes
\* of the then callback, which are the only writes of the table and of
\* the current locale, and no bundle in the table was built by it.
C18_FalseMeansNoChange ==
    \A c \in DOMAIN calls :
        calls[c].result = "false" =>
            /\ calls[c].then = "none"
            /\ \A l \in DOMAIN assets : assets[l].call # c

\* C19: Current locale is always backed by a bundle.  Through every handle,
\* the engine or a clone, a current locale that is not null has a bundle
\* in the table, which is a bundle of that very locale.
C19_CurrentLocaleBacked ==
    \A h \in Handles :
        currentLocale[h] # Null =>
            /\ currentLocale[h] \in DOMAIN assets
            /\ assets[currentLocale[h]].locale = currentLocale[h]

====
